---- MODULE Spec2Model ----
(***************************************************************************)
(* dtc: parse a date/time string, resolve its timezone and print the       *)
(* instant in a destination timezone (src/src/main.rs).                    *)
(*                                                                         *)
(* Strings are modelled by their lexical structure: an input is an         *)
(* optional date "YYYY-MM-DD", a separator, a time "HH:MM:SS", optional    *)
(* whitespace and a trailing token (nothing, a word, or a signed numeric   *)
(* offset).  Dates are day numbers since 1970-01-01, instants are seconds  *)
(* since 1970-01-01T00:00:00Z, offsets are seconds east of UTC.            *)
(***************************************************************************)
EXTENDS Integers, Sequences, FiniteSets, TLC

VARIABLES
    pc,               \* position of main: "main", "parse", "print", "done", "exit", "panic"
    args,             \* Args: [datetime, dest_tz]
    now,              \* the host clock (UTC instant) of this run
    host_tz,          \* the host's local timezone
    TIMEZONES_DB,     \* lazy_static abbreviation index: [built, map]
    dest_tz,          \* the zone main resolved for args.dest_tz
    parse_result,     \* what the call parse(&args.datetime) did
    datetime_parsed,  \* the DateTime<FixedOffset> main holds after parse
    stdout,           \* the converted instant main printed
    stderr,           \* the message written to stderr: [msg, arg]
    status            \* process exit status (-1 while running)

vars == <<pc, args, now, host_tz, TIMEZONES_DB, dest_tz, parse_result,
          datetime_parsed, stdout, stderr, status>>

----------------------------------------------------------------------------
(* Calendar and clock values (chrono NaiveDate / NaiveTime / DateTime).    *)

\* Largest hour 00..MaxOffsetHour enumerated for numeric offset tokens
\* (beside the hours 03, 09 and the out-of-range 24).
MaxOffsetHour == 1

\* NaiveDate: days since 1970-01-01 of the proleptic Gregorian date y-m-d.
Date(y, m, d) ==
    LET yy  == IF m <= 2 THEN y - 1 ELSE y
        era == yy \div 400
        yoe == yy - era * 400
        mp  == IF m > 2 THEN m - 3 ELSE m + 9
        doy == (153 * mp + 2) \div 5 + d - 1
        doe == yoe * 365 + yoe \div 4 - yoe \div 100 + doy
    IN  era * 146097 + doe - 719468

\* NaiveTime: seconds since midnight of h:m:s.
Time(h, m, s) == h * 3600 + m * 60 + s

DaySecs == 24 * 3600

\* NaiveDateTime as seconds since the epoch, and its two parts.
Instant(date, secs) == date * DaySecs + secs
DateOf(t) == t \div DaySecs
SecsOf(t) == t % DaySecs

\* DateTime<FixedOffset>: the UTC instant and the offset bound to it.
NullInstant == [utc |-> 0, off |-> 0]
WallClock(dt) == dt.utc + dt.off

----------------------------------------------------------------------------
(* Strings.                                                                *)

Words == {"jst", "JST", "pst", "pdt", "utc", "gmt", "z", "local", "Local",
          "notazone"}

\* str::to_uppercase / str::to_lowercase on the words of the model.
UpperWord(w) ==
    CASE w \in {"jst", "JST"}     -> "JST"
      [] w = "pst"                -> "PST"
      [] w = "pdt"                -> "PDT"
      [] w = "utc"                -> "UTC"
      [] w = "gmt"                -> "GMT"
      [] w = "z"                  -> "Z"
      [] w \in {"local", "Local"} -> "LOCAL"
      [] w = "notazone"           -> "NOTAZONE"
      [] OTHER                    -> w

LowerWord(w) ==
    CASE w \in {"jst", "JST"}     -> "jst"
      [] w \in {"local", "Local"} -> "local"
      [] w = "PST"                -> "pst"
      [] w = "PDT"                -> "pdt"
      [] w = "UTC"                -> "utc"
      [] w = "GMT"                -> "gmt"
      [] OTHER                    -> w

\* Two decimal digits.
D2(n) == IF n < 10 THEN "0" \o ToString(n) ELSE ToString(n)

\* Trailing tokens: kind "none" is the empty string, "word" a run of letters,
\* "off" a signed numeric offset written as +hh, +hhmm or +hh:mm.
NoTok == [kind |-> "none", w |-> "", neg |-> FALSE, h |-> 0, m |-> 0, form |-> ""]
WordTok(w) == [kind |-> "word", w |-> w, neg |-> FALSE, h |-> 0, m |-> 0, form |-> ""]
OffTok(neg, h, m, form) ==
    [kind |-> "off", w |-> "", neg |-> neg, h |-> h, m |-> m, form |-> form]

\* The text of a token (digits and signs have no letter case).
TokText(tok) ==
    CASE tok.kind = "none" -> ""
      [] tok.kind = "word" -> tok.w
      [] tok.kind = "off"  ->
            (IF tok.neg THEN "-" ELSE "+") \o D2(tok.h) \o
            (CASE tok.form = "hh"    -> ""
               [] tok.form = "hhmm"  -> D2(tok.m)
               [] tok.form = "hh:mm" -> ":" \o D2(tok.m))

to_uppercase(tok) == IF tok.kind = "word" THEN WordTok(UpperWord(tok.w)) ELSE tok
to_lowercase(tok) == IF tok.kind = "word" THEN WordTok(LowerWord(tok.w)) ELSE tok

\* An input string: shape "datetime" (date, separator, time, tail),
\* "timeonly" (time, tail) or "dateonly" (a date and nothing else).
\* sep is the text between date and time: "sp" (a space), "T", or "none".
\* gap tells whether whitespace separates the time from the token.
Str(shape, date, sep, secs, gap, tok) ==
    [shape |-> shape, date |-> date, sep |-> sep, secs |-> secs,
     gap |-> gap, tok |-> tok]

----------------------------------------------------------------------------
(* The timezone catalog (chrono_tz) and the abbreviation index.            *)

\* chrono_tz::TZ_VARIANTS, in declaration order (the zones the model keeps).
TZ_VARIANTS ==
    <<"America/Los_Angeles", "America/Sao_Paulo", "Asia/Tokyo", "GMT", "Japan", "UTC">>

Zones == {TZ_VARIANTS[i] : i \in DOMAIN TZ_VARIANTS}

\* Daylight-saving periods [start, end) as UTC instants.
LosAngelesDst ==
    { <<Instant(Date(2018, 3, 11), Time(10, 0, 0)), Instant(Date(2018, 11, 4), Time(9, 0, 0))>>,
      <<Instant(Date(2023, 3, 12), Time(10, 0, 0)), Instant(Date(2023, 11, 5), Time(9, 0, 0))>>,
      <<Instant(Date(2026, 3, 8), Time(10, 0, 0)), Instant(Date(2026, 11, 1), Time(9, 0, 0))>> }

SaoPauloDst ==
    { <<Instant(Date(2018, 11, 4), Time(3, 0, 0)), Instant(Date(2019, 2, 17), Time(2, 0, 0))>> }

InPeriod(t, periods) == \E p \in periods : p[1] <= t /\ t < p[2]

\* tz.from_utc_datetime(t).offset(): the zone's offset and abbreviation in
\* force at the UTC instant t.
TzInfo(tz, t) ==
    CASE tz = "America/Los_Angeles" ->
            IF InPeriod(t, LosAngelesDst)
            THEN [off |-> -7 * 3600, abbr |-> "PDT"]
            ELSE [off |-> -8 * 3600, abbr |-> "PST"]
      [] tz = "America/Sao_Paulo" ->
            IF InPeriod(t, SaoPauloDst)
            THEN [off |-> -2 * 3600, abbr |-> "-02"]
            ELSE [off |-> -3 * 3600, abbr |-> "-03"]
      [] tz \in {"Asia/Tokyo", "Japan"} -> [off |-> 9 * 3600, abbr |-> "JST"]
      [] tz = "GMT" -> [off |-> 0, abbr |-> "GMT"]
      [] tz = "UTC" -> [off |-> 0, abbr |-> "UTC"]

\* datetime.with_timezone(tz).offset().fix()
TzOffset(tz, t) == TzInfo(tz, t).off

\* build_timezone_db: lowercase abbreviation at utc_now -> zone; a later
\* zone of TZ_VARIANTS overwrites an earlier one with the same abbreviation.
build_timezone_db(utc_now) ==
    LET key(i) == LowerWord(TzInfo(TZ_VARIANTS[i], utc_now).abbr)
        keys   == {key(i) : i \in DOMAIN TZ_VARIANTS}
        last(k) == CHOOSE i \in DOMAIN TZ_VARIANTS :
                      /\ key(i) = k
                      /\ \A j \in DOMAIN TZ_VARIANTS : key(j) = k => j <= i
    IN  [k \in keys |-> TZ_VARIANTS[last(k)]]

\* lazy_static TIMEZONES_DB before its first use.
Unbuilt == [built |-> FALSE, map |-> << >>]

\* TIMEZONES_DB.get(&token.to_lowercase())
DbKey(tok) == TokText(to_lowercase(tok))
DbHas(db, tok) == DbKey(tok) \in DOMAIN db.map
DbGet(db, tok) == db.map[DbKey(tok)]

----------------------------------------------------------------------------
(* The Timezone Resolver.                                                  *)

OFFSET_FORMATS == <<"%#z", "%:z", "%::z", "%Z">>
DB_STEP == "TIMEZONES_DB"

\* DateTime::parse_from_str("<datetime> <token>", "%Y-%m-%d %H:%M:%S <format>"):
\* whether the token parses as the offset item `format`, and the offset.
\* %#z takes 'Z' and an offset without minutes; %:z and %::z need the
\* minutes; %Z skips the token and sets no offset, so no DateTime results.
\* An offset of 24 hours or more is out of FixedOffset's range.
parse_from_str(tok, format) ==
    LET fail == [ok |-> FALSE, off |-> 0]
        secs == tok.h * 3600 + tok.m * 60
    IN  CASE format = "%Z"      -> fail
          [] tok.kind = "none"  -> fail
          [] tok.kind = "word"  ->
                IF format = "%#z" /\ tok.w = "Z" THEN [ok |-> TRUE, off |-> 0] ELSE fail
          [] tok.kind = "off"   ->
                IF \/ tok.form = "hh" /\ format # "%#z"
                   \/ tok.m > 59
                   \/ secs >= DaySecs
                THEN fail
                ELSE [ok |-> TRUE, off |-> IF tok.neg THEN -secs ELSE secs]

\* parse_timezone with the database looked up before the offset formats.
parse_timezone_db_first(datetime, timezone) ==
    IF DbHas(TIMEZONES_DB, timezone)
    THEN [ok |-> TRUE, off |-> TzOffset(DbGet(TIMEZONES_DB, timezone), datetime),
          steps |-> <<DB_STEP>>]
    ELSE LET r == parse_from_str(to_uppercase(timezone), "%#z")
         IN  [ok |-> r.ok, off |-> r.off, steps |-> <<DB_STEP, "%#z">>]

\* parse_timezone taking the zone's offset at the current moment.
RECURSIVE parse_timezone_now_from(_, _, _)
parse_timezone_now_from(datetime, timezone, i) ==
    IF i <= Len(OFFSET_FORMATS)
    THEN LET r == parse_from_str(to_uppercase(timezone), OFFSET_FORMATS[i])
         IN  IF r.ok
             THEN [ok |-> TRUE, off |-> r.off, steps |-> <<OFFSET_FORMATS[i]>>]
             ELSE LET rest == parse_timezone_now_from(datetime, timezone, i + 1)
                  IN  [rest EXCEPT !.steps = <<OFFSET_FORMATS[i]>> \o @]
    ELSE IF DbHas(TIMEZONES_DB, timezone)
         THEN [ok |-> TRUE, off |-> TzOffset(DbGet(TIMEZONES_DB, timezone), now),
               steps |-> <<DB_STEP>>]
         ELSE [ok |-> FALSE, off |-> 0, steps |-> <<DB_STEP>>]

parse_timezone_now(datetime, timezone) == parse_timezone_now_from(datetime, timezone, 1)

\* The loop of parse_timezone from the i-th offset format on, then the
\* database lookup.  steps lists what was attempted, in order.
RECURSIVE parse_timezone_from(_, _, _)
parse_timezone_from(datetime, timezone, i) ==
    IF i <= Len(OFFSET_FORMATS)
    THEN LET r == parse_from_str(to_uppercase(timezone), OFFSET_FORMATS[i])
         IN  IF r.ok
             THEN [ok |-> TRUE, off |-> r.off, steps |-> <<OFFSET_FORMATS[i]>>]
             ELSE LET rest == parse_timezone_from(datetime, timezone, i + 1)
                  IN  [rest EXCEPT !.steps = <<OFFSET_FORMATS[i]>> \o @]
    ELSE IF DbHas(TIMEZONES_DB, timezone)
         THEN [ok |-> TRUE, off |-> TzOffset(DbGet(TIMEZONES_DB, timezone), datetime),
               steps |-> <<DB_STEP>>]
         ELSE [ok |-> FALSE, off |-> 0, steps |-> <<DB_STEP>>]

\* parse_timezone(datetime: DateTime<Utc>, timezone: &str) -> Result<FixedOffset, ()>
parse_timezone(datetime, timezone) == parse_timezone_from(datetime, timezone, 1)

----------------------------------------------------------------------------
(* The Datetime Parser.                                                    *)

FORMATS == <<"%Y-%m-%d %H:%M:%S", "%Y-%m-%dT%H:%M:%S">>

\* NaiveTime::parse_and_remainder(datetime, "%H:%M:%S").is_ok(): the string
\* starts with a time.  (A string starting with a date does not: after at
\* most two digits of the year comes a digit or '-', never ':'.)
NaiveTime_parse_and_remainder(datetime) == datetime.shape = "timeonly"

\* NaiveDateTime::parse_and_remainder(datetime, format): the prefix must be
\* a date, the separator of the format, and a time.  A space in the format
\* matches any run of whitespace, the empty one included; 'T' matches 'T'.
NaiveDateTime_parse_and_remainder(datetime, format) ==
    LET sepOk == IF format = FORMATS[1] THEN datetime.sep \in {"sp", "none"}
                                        ELSE datetime.sep = "T"
    IN  [ok        |-> datetime.shape = "datetime" /\ sepOk,
         naive     |-> Instant(datetime.date, datetime.secs),
         remainder |-> [gap |-> datetime.gap, tok |-> datetime.tok]]

\* str::trim on a remainder: the token without the whitespace around it.
trim(remainder) == remainder.tok

\* and_local_timezone reading the naive value as UTC (and_utc + with_timezone).
and_local_timezone_as_utc(naive, off) == [utc |-> naive, off |-> off]

\* naive.and_local_timezone(offset).unwrap().fixed_offset(): the naive value
\* is the wall clock at that offset.
and_local_timezone(naive, off) == [utc |-> naive - off, off |-> off]

\* Local::now().date_naive() read from the UTC clock instead.
Utc_now_date_naive == DateOf(now)

\* Local::now().date_naive(): the host's local calendar date.
Local_now_date_naive == DateOf(now + TzOffset(host_tz, now))

\* The loop of parse_datetime from the i-th format on.  status is "ok",
\* "err" (Err(()) returned) or "panic" (the unwrap of parse_timezone's Err);
\* tried lists the formats attempted, steps what the resolver attempted.
RECURSIVE parse_datetime_from(_, _)
parse_datetime_from(datetime, i) ==
    IF i > Len(FORMATS)
    THEN [status |-> "err", value |-> NullInstant, tried |-> << >>, steps |-> << >>]
    ELSE LET m == NaiveDateTime_parse_and_remainder(datetime, FORMATS[i])
         IN  IF m.ok
             THEN LET tz == parse_timezone(m.naive, trim(m.remainder))
                  IN  IF tz.ok
                      THEN [status |-> "ok",
                            value  |-> and_local_timezone(m.naive, tz.off),
                            tried  |-> <<FORMATS[i]>>, steps |-> tz.steps]
                      ELSE [status |-> "panic", value |-> NullInstant,
                            tried  |-> <<FORMATS[i]>>, steps |-> tz.steps]
             ELSE LET rest == parse_datetime_from(datetime, i + 1)
                  IN  [rest EXCEPT !.tried = <<FORMATS[i]>> \o @]

\* parse_datetime(datetime: &str) -> Result<DateTime<FixedOffset>, ()>
parse_datetime(datetime) == parse_datetime_from(datetime, 1)

\* parse(datetime: &str): a time-only string gets the local date and a
\* space in front; datetime is the string handed to parse_datetime.
parse(datetime) ==
    LET expanded == IF NaiveTime_parse_and_remainder(datetime)
                    THEN Str("datetime", Local_now_date_naive, "sp",
                             datetime.secs, datetime.gap, datetime.tok)
                    ELSE datetime
        r == parse_datetime(expanded)
    IN  [status |-> r.status, value |-> r.value, datetime |-> expanded,
         tried |-> r.tried, steps |-> r.steps]

----------------------------------------------------------------------------
(* The Converter and the serialisations.                                   *)

\* convert keeping the wall clock instead of the instant.
convert_wall_clock(datetime, timezone) ==
    LET off == TzOffset(timezone, datetime.utc)
    IN  [utc |-> WallClock(datetime) - off, off |-> off]

\* convert(datetime, timezone): datetime.fixed_offset().with_timezone(timezone)
convert(datetime, timezone) ==
    [utc |-> datetime.utc, off |-> TzOffset(timezone, datetime.utc)]

\* DateTime::to_rfc3339: date, 'T', time, then sign and hh:mm of the offset.
to_rfc3339(dt) ==
    LET wall == WallClock(dt)
        mag  == IF dt.off < 0 THEN -dt.off ELSE dt.off
    IN  Str("datetime", DateOf(wall), "T", SecsOf(wall), FALSE,
            OffTok(dt.off < 0, mag \div 3600, (mag % 3600) \div 60, "hh:mm"))

----------------------------------------------------------------------------
(* The inputs of a run.                                                    *)

Dates == {Date(2018, 12, 25), Date(2023, 7, 1), Date(2023, 10, 22)}
Times == {Time(10, 34, 16), Time(23, 30, 0)}

OffsetHours == (0 .. MaxOffsetHour) \cup {3, 9, 24}

OffToks ==
    {OffTok(neg, h, 0, "hh") : neg \in BOOLEAN, h \in OffsetHours}
    \cup {OffTok(x[1], x[2], x[3], x[4]) :
            x \in BOOLEAN \X OffsetHours \X {0, 30} \X {"hhmm", "hh:mm"}}

WordToks == {WordTok(w) : w \in Words}

\* What follows the time: nothing, or a token with or without a space before it.
Tails == {[gap |-> FALSE, tok |-> NoTok]}
         \cup [gap : BOOLEAN, tok : WordToks \cup OffToks]

Inputs ==
    {Str("datetime", x[1], x[2], x[3], x[4].gap, x[4].tok) :
        x \in Dates \X {"sp", "T", "none"} \X Times \X Tails}
    \cup {Str("timeonly", 0, "", x[1], x[2].gap, x[2].tok) : x \in Times \X Tails}
    \cup {Str("dateonly", d, "", 0, FALSE, NoTok) : d \in Dates}

\* Destination tokens; "gmt" is the default of Args.
DestTokens == {WordTok(w) : w \in {"gmt", "utc", "JST", "pst", "notazone"}}

Clocks == {Instant(Date(2023, 7, 1), Time(12, 0, 0)),
           Instant(Date(2026, 11, 4), Time(23, 30, 0))}

HostZones == {"Asia/Tokyo", "America/Los_Angeles"}

NoParse == [status |-> "none", value |-> NullInstant,
            datetime |-> Str("", 0, "", 0, FALSE, NoTok),
            tried |-> << >>, steps |-> << >>]
NoMessage == [msg |-> "", arg |-> "none"]

----------------------------------------------------------------------------
(* main.                                                                   *)

Init ==
    /\ pc = "main"
    /\ args \in [datetime : Inputs, dest_tz : DestTokens]
    /\ now \in Clocks
    /\ host_tz \in HostZones
    /\ TIMEZONES_DB = Unbuilt
    /\ dest_tz = ""
    /\ parse_result = NoParse
    /\ datetime_parsed = NullInstant
    /\ stdout = NullInstant
    /\ stderr = NoMessage
    /\ status = -1

\* main without the exit on an unknown destination.
AfterLookup_no_exit(found) == "parse"

\* Where main goes after looking up the destination: on to parse, or exit(1).
AfterLookup(found) == IF found THEN "parse" ELSE "exit"

\* let dest_tz = match TIMEZONES_DB.get(..) { Some(tz) => tz, None => { eprintln!; exit(1) } }
\* The first use of TIMEZONES_DB builds it from the current clock.
LookupDest ==
    /\ pc = "main"
    /\ LET db    == [built |-> TRUE, map |-> build_timezone_db(now)]
           found == DbHas(db, args.dest_tz)
       IN  /\ TIMEZONES_DB' = db
           /\ dest_tz' = IF found THEN DbGet(db, args.dest_tz) ELSE ""
           /\ pc' = AfterLookup(found)
           /\ IF pc' = "exit"
              THEN /\ stderr' = [msg |-> "Destination timezone {} could not be found in the timezone database",
                                 arg |-> "dest_tz"]
                   /\ status' = 1
              ELSE UNCHANGED <<stderr, status>>
    /\ UNCHANGED <<args, now, host_tz, parse_result, datetime_parsed, stdout>>

\* let datetime_parsed = parse(&args.datetime).unwrap_or_else(|()| panic!("Could not parse {}", ..))
\* A panic ends the process with status 101 and its message on stderr.
ParseArg ==
    /\ pc = "parse"
    /\ LET r == parse(args.datetime)
       IN  /\ parse_result' = r
           /\ CASE r.status = "ok" ->
                     /\ datetime_parsed' = r.value
                     /\ pc' = "print"
                     /\ UNCHANGED <<stderr, status>>
                [] r.status = "err" ->
                     /\ pc' = "panic"
                     /\ stderr' = [msg |-> "Could not parse {}", arg |-> "datetime"]
                     /\ status' = 101
                     /\ UNCHANGED datetime_parsed
                [] r.status = "panic" ->
                     /\ pc' = "panic"
                     /\ stderr' = [msg |-> "called Result::unwrap() on an Err value: ()",
                                   arg |-> "none"]
                     /\ status' = 101
                     /\ UNCHANGED datetime_parsed
    /\ UNCHANGED <<args, now, host_tz, TIMEZONES_DB, dest_tz, stdout>>

\* println!("{}", convert(&datetime_parsed, dest_tz)); main returns.
PrintConverted ==
    /\ pc = "print"
    /\ stdout' = convert(datetime_parsed, dest_tz)
    /\ pc' = "done"
    /\ status' = 0
    /\ UNCHANGED <<args, now, host_tz, TIMEZONES_DB, dest_tz, parse_result,
                   datetime_parsed, stderr>>

Next == LookupDest \/ ParseArg \/ PrintConverted

Spec == Init /\ [][Next]_vars

----------------------------------------------------------------------------
(* Properties.                                                             *)

\* parse has been called and has returned or panicked.
Parsed == parse_result.status # "none"

\* The string handed to parse_datetime, its token and its naive date-time.
Given == parse_result.datetime
GivenTok == Given.tok
GivenNaive == Instant(Given.date, Given.secs)

\* Some pattern of FORMATS matches the prefix of the string.
Matched == \E i \in DOMAIN FORMATS : NaiveDateTime_parse_and_remainder(Given, FORMATS[i]).ok

\* The host's local calendar date and local offset at the current moment.
HostOffset == TzOffset(host_tz, now)
HostDate == DateOf(now + HostOffset)

\* The offset a numeric token writes.
Written(tok) ==
    IF tok.neg THEN -(tok.h * 3600 + tok.m * 60) ELSE tok.h * 3600 + tok.m * 60

\* A numeric offset token within -23:59 .. +23:59.
WellFormedOffset(tok) == tok.kind = "off" /\ tok.h <= 23 /\ tok.m <= 59

\* C1: an input that matches a pattern and has an empty remainder parses to
\* an instant at offset +00:00 whose wall clock is the one written.
C1_NoTimezoneIsUtc ==
    (Parsed /\ Matched /\ GivenTok.kind = "none") =>
        /\ parse_result.status = "ok"
        /\ parse_result.value.off = 0
        /\ WallClock(parse_result.value) = GivenNaive

\* C2 (as claimed): a date, a time and an abbreviation that is a key of the
\* index parse to an instant whose offset is the mapped zone's offset at the
\* current moment, whatever date the input names.
C2_CurrentOffset ==
    (Parsed /\ Matched /\ GivenTok.kind # "none" /\ DbHas(TIMEZONES_DB, GivenTok)) =>
        /\ parse_result.status = "ok"
        /\ parse_result.value.off = TzOffset(DbGet(TIMEZONES_DB, GivenTok), now)

\* C2 (amended): an alphabetic abbreviation that is a key of the index gives
\* the mapped zone's offset at the input's date and time read as UTC; a key
\* that is itself a numeric offset gives the offset it writes.  The wall
\* clock is the one written.
C2_OffsetAtInputTime ==
    (Parsed /\ Matched /\ GivenTok.kind # "none" /\ DbHas(TIMEZONES_DB, GivenTok)) =>
        /\ parse_result.status = "ok"
        /\ WallClock(parse_result.value) = GivenNaive
        /\ GivenTok.kind = "word" =>
              parse_result.value.off = TzOffset(DbGet(TIMEZONES_DB, GivenTok), GivenNaive)
        /\ GivenTok.kind = "off" => parse_result.value.off = Written(GivenTok)

C2_Witness ==
    /\ parse_result.status = "ok"
    /\ GivenTok = WordTok("pst")
    /\ DbHas(TIMEZONES_DB, GivenTok)
    /\ Given.date = Date(2023, 7, 1)
    /\ parse_result.value.off = -7 * 3600
    /\ TzOffset(DbGet(TIMEZONES_DB, GivenTok), now) = -8 * 3600

\* The destination token is no key of the abbreviation index of this run.
DestUnknown ==
    ~DbHas([built |-> TRUE, map |-> build_timezone_db(now)], args.dest_tz)

\* C3: with a destination token that is no key of the index, the run ends
\* with exit status 1 and a message naming the token, and parse is never
\* called; main's step from the lookup leads straight to the exit, and no
\* other run exits this way.
C3_UnknownDestExitsBeforeParse ==
    /\ [](DestUnknown =>
            /\ pc \in {"main", "exit"}
            /\ parse_result = NoParse
            /\ pc = "exit" => (status = 1 /\ stderr.arg = "dest_tz"))
    /\ [](pc = "exit" => DestUnknown)
    /\ [][(DestUnknown /\ pc = "main") => pc' = "exit"]_vars

C3_Witness ==
    /\ pc = "exit"
    /\ status = 1
    /\ args.dest_tz = WordTok("notazone")
    /\ parse_result = NoParse

\* C4: every failed parse ends the process with a non-zero status and a
\* message that names the input string.
C4_FailureNamesInput ==
    parse_result.status \in {"err", "panic"} =>
        /\ status \notin {-1, 0}
        /\ stderr.arg = "datetime"

\* C5: when a pattern matches and the trimmed remainder is "local" in any
\* letter case, parse succeeds with the host's local offset.
C5_LocalKeyword ==
    (Parsed /\ Matched /\ GivenTok.kind = "word" /\ LowerWord(GivenTok.w) = "local") =>
        /\ parse_result.status = "ok"
        /\ parse_result.value.off = HostOffset

\* date 'T' time and a signed hh:mm offset within a day.
IsRfc3339(s) ==
    /\ s.shape = "datetime" /\ s.sep = "T" /\ ~s.gap
    /\ WellFormedOffset(s.tok) /\ s.tok.form = "hh:mm"

NegativeZero(tok) == tok.neg /\ tok.h = 0 /\ tok.m = 0

\* C6 (as claimed): parsing a string in the offset-qualified representation
\* and serialising the result gives the identical string.
C6_RoundTrip ==
    (Parsed /\ IsRfc3339(args.datetime)) =>
        /\ parse_result.status = "ok"
        /\ to_rfc3339(parse_result.value) = args.datetime

\* C6 (amended): the round trip gives the identical string unless the offset
\* is written -00:00, which comes back as +00:00 with the same date and time.
C6_RoundTripButNegativeZero ==
    (Parsed /\ IsRfc3339(args.datetime)) =>
        /\ parse_result.status = "ok"
        /\ to_rfc3339(parse_result.value) =
              IF NegativeZero(args.datetime.tok)
              THEN [args.datetime EXCEPT !.tok.neg = FALSE]
              ELSE args.datetime

C6_Witness ==
    /\ parse_result.status = "ok"
    /\ args.datetime = Str("datetime", Date(2023, 10, 22), "T", Time(10, 34, 16), FALSE,
                           OffTok(FALSE, 1, 0, "hh:mm"))
    /\ to_rfc3339(parse_result.value) = args.datetime

\* C7: a time-only input gets the host's local date and a space in front
\* before pattern matching, so a result carries that date whatever the
\* remainder resolves to; any other input is passed on unchanged.
C7_TimeOnlyGetsLocalDate ==
    Parsed =>
        IF args.datetime.shape = "timeonly"
        THEN /\ Given = Str("datetime", HostDate, "sp", args.datetime.secs,
                            args.datetime.gap, args.datetime.tok)
             /\ parse_result.status = "ok" =>
                    /\ DateOf(WallClock(parse_result.value)) = HostDate
                    /\ SecsOf(WallClock(parse_result.value)) = args.datetime.secs
        ELSE Given = args.datetime

C7_Witness ==
    /\ args.datetime.shape = "timeonly"
    /\ args.datetime.tok = WordTok("pst")
    /\ parse_result.status = "ok"
    /\ DateOf(WallClock(parse_result.value)) = HostDate
    /\ HostDate # DateOf(now)
    /\ DateOf(parse_result.value.utc) # HostDate

\* C8: convert does not fail and keeps the absolute instant; converting to
\* UTC shows exactly the input's UTC value.
C8_ConvertKeepsInstant ==
    /\ pc = "done" =>
          /\ stdout.utc = datetime_parsed.utc
          /\ dest_tz \in {"UTC", "GMT"} =>
                (stdout.off = 0 /\ WallClock(stdout) = datetime_parsed.utc)
    /\ pc = "print" => ENABLED PrintConverted

C8_Witness ==
    /\ pc = "done"
    /\ dest_tz = "UTC"
    /\ datetime_parsed.off = 3600
    /\ WallClock(stdout) = WallClock(datetime_parsed) - 3600

\* C9: when a pattern matches but the resolver fails on the remainder, the
\* parser goes on to the next pattern and fails only after all were tried.
C9_ResolverFailureTriesNextPattern ==
    (Parsed /\ parse_result.steps # << >> /\ parse_result.status # "ok") =>
        /\ parse_result.tried = FORMATS
        /\ parse_result.status = "err"

IsPrefix(a, b) == Len(a) <= Len(b) /\ \A i \in DOMAIN a : a[i] = b[i]

\* C10: the resolver attempts the offset formats in their order and the
\* index after all of them; a well-formed numeric offset resolves to the
\* offset it writes without the index being reached.
C10_ResolverOrder ==
    (Parsed /\ parse_result.steps # << >>) =>
        /\ IsPrefix(parse_result.steps, OFFSET_FORMATS \o <<DB_STEP>>)
        /\ WellFormedOffset(GivenTok) =>
              /\ parse_result.status = "ok"
              /\ parse_result.value.off = Written(GivenTok)
              /\ \A i \in DOMAIN parse_result.steps : parse_result.steps[i] # DB_STEP

C10_Witness ==
    /\ parse_result.status = "ok"
    /\ GivenTok = OffTok(TRUE, 3, 0, "hh")
    /\ DbHas(TIMEZONES_DB, GivenTok)
    /\ parse_result.steps = <<"%#z">>
    /\ parse_result.value.off = -3 * 3600

====
